---- MODULE Spec2Model ----
(***************************************************************************)
(* Model of providers/libsteam.py: winreg_read, get_libraries,             *)
(* fix_game_path and check_vdf.                                            *)
(*                                                                         *)
(* Python strings are sequences of one-character strings, so that the      *)
(* substring tests, split, replace, slice, strip, lower and the ntpath     *)
(* functions are computed character by character as the library does.      *)
(* The module imports winreg, so os.path is ntpath: the separator is the   *)
(* backslash and "/" is the alternative separator.                         *)
(***************************************************************************)
EXTENDS Integers, Sequences, FiniteSets, TLC

VARIABLES
    pc,            \* position of the running function
    exc,           \* exception that left the function, "none" if none
    \* winreg_read
    arch,          \* pa()[0]
    regpath,       \* registry key path selected from arch
    regkey,        \* "None" or "handle"
    ipath,         \* Unbound or the install path string
    pending,       \* exception in flight while the finally clause runs
    calls,         \* registry and console calls made so far, in order
    installpath,   \* value returned by winreg_read
    \* get_libraries
    libstate,      \* what open(libfile) meets: "ok", "missing", "denied"
    fileLines,     \* the lines of libraryfolders.vdf read so far
    libdirs,       \* the list being accumulated
    \* fix_game_path
    cwd,           \* os.getcwd()
    dir,           \* argument of the first call
    once,          \* fix_game_path(dir)
    twice,         \* fix_game_path(fix_game_path(dir))
    \* check_vdf
    regularFiles,  \* lower-cased paths of the regular files on disk
    gameorder,     \* iteration order of the caller's dict
    gamedirs,      \* the caller's dict, mutated in place
    entryvals,     \* the dict's values on entry
    listed,        \* per game, the os.listdir entries seen so far
    gi,            \* index of the game the current loop is at
    cleangamedirs, \* dict built by the scrub pass: <<key, value>> in order
    opened,        \* paths handed to open(), in order
    lineno,        \* lines read from the manifest that is currently open
    lastline,      \* the line last read from the manifest that is open
    handled,       \* except clauses entered so far
    vdfcleanable   \* keys of the result dict (the sizes are not modelled)

vars == <<pc, exc, arch, regpath, regkey, ipath, pending, calls, installpath,
          libstate, fileLines, libdirs, cwd, dir, once, twice,
          regularFiles, gameorder, gamedirs, entryvals, listed, gi,
          cleangamedirs, opened, lineno, lastline, handled, vdfcleanable>>

regvars == <<arch, regpath, regkey, ipath, pending, calls, installpath>>
libvars == <<libstate, fileLines, libdirs>>
fixvars == <<dir, once, twice>>
vdfvars == <<regularFiles, gameorder, gamedirs, entryvals, listed, gi,
             cleangamedirs, opened, lineno, lastline, handled, vdfcleanable>>

None == "None"
\* the value of a local variable that no assignment has reached
Unbound == <<"<unbound>">>

(***************************************************************************)
(* Characters and words                                                    *)
(***************************************************************************)
sep == "\\"
altsep == "/"
quote == "\""
tab == "\t"
space == " "
colon == ":"
dot == "."
percent == "%"

curdir == <<".">>
pardir == <<".", ".">>

wINSTALLDIR == <<"I", "N", "S", "T", "A", "L", "L", "D", "I", "R">>
wInstalldirLower == <<"i", "n", "s", "t", "a", "l", "l", "d", "i", "r">>
wSteamApps == <<"S", "t", "e", "a", "m", "A", "p", "p", "s">>
wCommon == <<"c", "o", "m", "m", "o", "n">>
wSetup == <<"s", "e", "t", "u", "p">>
wRedist == <<"r", "e", "d", "i", "s", "t">>
wVdf == <<".", "v", "d", "f">>
wExe == <<".", "e", "x", "e">>
wDriveC == <<"C", ":">>

(***************************************************************************)
(* str operations                                                          *)
(***************************************************************************)
\* sub in s
Contains(s, sub) ==
    \E i \in 1..(Len(s) - Len(sub) + 1) : SubSeq(s, i, i + Len(sub) - 1) = sub

StartsWith(s, pre) == Len(s) >= Len(pre) /\ SubSeq(s, 1, Len(pre)) = pre

\* s.find(ch): 0-based index of the first occurrence, -1 when absent
Find(s, ch) ==
    IF \E i \in 1..Len(s) : s[i] = ch
    THEN (CHOOSE i \in 1..Len(s) : s[i] = ch /\ \A j \in 1..(i - 1) : s[j] # ch) - 1
    ELSE -1

\* s[0:n] for n >= 0
Slice(s, n) == SubSeq(s, 1, IF n < Len(s) THEN n ELSE Len(s))

RECURSIVE Split(_, _)
\* s.split(d) for a one-character d
Split(s, d) ==
    LET k == Find(s, d) IN
    IF k = -1 THEN <<s>>
    ELSE <<SubSeq(s, 1, k)>> \o Split(SubSeq(s, k + 2, Len(s)), d)

RECURSIVE Replace(_, _, _)
\* s.replace(old, new) for a non-empty old
Replace(s, old, new) ==
    IF s = <<>> THEN <<>>
    ELSE IF StartsWith(s, old)
         THEN new \o Replace(SubSeq(s, Len(old) + 1, Len(s)), old, new)
         ELSE <<Head(s)>> \o Replace(Tail(s), old, new)

RECURSIVE LStrip(_, _)
LStrip(s, chars) ==
    IF s # <<>> /\ Head(s) \in chars THEN LStrip(Tail(s), chars) ELSE s

RECURSIVE RStrip(_, _)
RStrip(s, chars) ==
    IF s # <<>> /\ s[Len(s)] \in chars
    THEN RStrip(SubSeq(s, 1, Len(s) - 1), chars) ELSE s

\* s.strip(chars)
Strip(s, chars) == RStrip(LStrip(s, chars), chars)

Whitespace == {space, tab, "\n"}

\* the upper-case letters that occur in the model's strings
LowerOf(c) ==
    CASE c = "A" -> "a" [] c = "C" -> "c" [] c = "D" -> "d" [] c = "G" -> "g"
      [] c = "I" -> "i" [] c = "L" -> "l" [] c = "N" -> "n" [] c = "R" -> "r"
      [] c = "S" -> "s" [] c = "T" -> "t" [] OTHER -> c

\* s.lower()
Lower(s) == [i \in 1..Len(s) |-> LowerOf(s[i])]

RECURSIVE Join(_, _)
\* d.join(parts)
Join(parts, d) ==
    IF parts = <<>> THEN <<>>
    ELSE IF Len(parts) = 1 THEN parts[1]
    ELSE parts[1] \o <<d>> \o Join(Tail(parts), d)

(***************************************************************************)
(* ntpath                                                                  *)
(***************************************************************************)
\* ntpath.splitdrive for drive-letter paths (no UNC path occurs in the model)
DriveOf(p) == IF Len(p) >= 2 /\ p[2] = colon THEN SubSeq(p, 1, 2) ELSE <<>>
RestOf(p) == SubSeq(p, Len(DriveOf(p)) + 1, Len(p))

RECURSIVE NormComps(_, _, _)
\* the while loop of ntpath.normpath over the components
NormComps(comps, kept, rooted) ==
    IF comps = <<>> THEN kept
    ELSE LET c == Head(comps) IN
         IF c = <<>> \/ c = curdir THEN NormComps(Tail(comps), kept, rooted)
         ELSE IF c = pardir
              THEN IF kept # <<>> /\ kept[Len(kept)] # pardir
                   THEN NormComps(Tail(comps), SubSeq(kept, 1, Len(kept) - 1), rooted)
                   ELSE IF kept = <<>> /\ rooted
                        THEN NormComps(Tail(comps), kept, rooted)
                        ELSE NormComps(Tail(comps), Append(kept, c), rooted)
              ELSE NormComps(Tail(comps), Append(kept, c), rooted)

\* os.path.normpath
normpath(path) ==
    LET p == [i \in 1..Len(path) |-> IF path[i] = altsep THEN sep ELSE path[i]]
        drive == DriveOf(p)
        rest == RestOf(p)
        rooted == rest # <<>> /\ Head(rest) = sep
        prefix == IF rooted THEN drive \o <<sep>> ELSE drive
        comps == NormComps(Split(LStrip(rest, {sep}), sep), <<>>, rooted)
    IN  IF prefix = <<>> /\ comps = <<>> THEN curdir
        ELSE prefix \o Join(comps, sep)

\* os.path.join(a, b) for a b that has no drive and no leading separator
join(a, b) ==
    IF a = <<>> THEN b
    ELSE IF a[Len(a)] \in {sep, altsep, colon} THEN a \o b
    ELSE a \o <<sep>> \o b

\* os.path.abspath with the current directory wd
abspathIn(wd, path) ==
    LET p == [i \in 1..Len(path) |-> IF path[i] = altsep THEN sep ELSE path[i]]
        rest == RestOf(p)
    IN  IF rest # <<>> /\ Head(rest) = sep
        THEN normpath((IF DriveOf(p) = <<>> THEN DriveOf(wd) ELSE DriveOf(p)) \o rest)
        ELSE normpath(join(wd, rest))

abspath(path) == abspathIn(cwd, path)

(***************************************************************************)
(* winreg_read                                                             *)
(***************************************************************************)
wSteamDir == wDriveC \o <<sep, "S", "t", "e", "a", "m">>

\* what platform.architecture()[0] can be; it is '' when undetermined
Architectures == {"64bit", "32bit", "", "ELF"}

\* strings the InstallPath value can hold
RegValues == {wSteamDir, <<space>> \o wSteamDir \o <<space>>,
              wSteamDir \o <<sep, dot>>}
\* strings the user can type at the prompt
PromptInputs == {wSteamDir \o <<sep>>, <<"D", ":", sep, "G">>,
                 <<"G", tab>>}
\* the current directory of the process
WorkingDirs == {wDriveC \o <<sep, "w">>, <<"D", ":", sep>>}

\* how a registry call can end
RegOutcomes == {"ok", "PermissionError", "FileNotFoundError"}

KeyWow64 == "SOFTWARE\\Wow6432Node\\Valve\\Steam"
Key32 == "SOFTWARE\\Valve\\Steam"

\* faulty variant: the two key paths exchanged
RegPathSwapped(a) == IF a = "64bit" THEN Key32 ELSE KeyWow64

\* lines 24-31: the key path per architecture
RegPathFor(a) == IF a = "64bit" THEN KeyWow64 ELSE Key32

\* lines 19-21
InitReg ==
    /\ pc = "start"
    /\ exc = "none"
    /\ cwd \in WorkingDirs
    /\ arch \in Architectures
    /\ regpath = None /\ regkey = None /\ ipath = Unbound
    /\ pending = "none" /\ calls = <<>> /\ installpath = <<>>
    /\ libstate = "ok" /\ fileLines = <<>> /\ libdirs = <<>>
    /\ dir = <<>> /\ once = <<>> /\ twice = <<>>
    /\ regularFiles = {} /\ gameorder = <<>> /\ gamedirs = <<>>
    /\ entryvals = <<>> /\ listed = <<>> /\ gi = 0 /\ cleangamedirs = <<>>
    /\ opened = <<>> /\ lineno = 0 /\ lastline = <<>> /\ handled = <<>>
    /\ vdfcleanable = <<>>

\* lines 24-34: select the key, or raise ValueError
SelectKey ==
    /\ pc = "start"
    /\ IF arch \in {"64bit", "32bit"}
       THEN /\ regpath' = RegPathFor(arch)
            /\ pc' = "try"
            /\ exc' = exc
       ELSE /\ pc' = "raised"
            /\ exc' = "ValueError"
            /\ regpath' = regpath
    /\ UNCHANGED <<arch, regkey, ipath, pending, calls, installpath, cwd>>
    /\ UNCHANGED <<libvars, fixvars, vdfvars>>

\* lines 37-38: winreg.OpenKeyEx
OpenKey ==
    /\ pc = "try"
    /\ calls' = Append(calls, <<"OpenKeyEx", regpath>>)
    /\ \E outcome \in RegOutcomes :
         CASE outcome = "ok" ->
                regkey' = "handle" /\ pc' = "query" /\ pending' = pending
           [] outcome = "PermissionError" ->
                regkey' = regkey /\ pc' = "except" /\ pending' = pending
           [] OTHER ->
                regkey' = regkey /\ pc' = "finally" /\ pending' = outcome
    /\ UNCHANGED <<exc, arch, regpath, ipath, installpath, cwd>>
    /\ UNCHANGED <<libvars, fixvars, vdfvars>>

\* line 40: winreg.QueryValueEx(regkey, 'InstallPath')[0]
QueryValue ==
    /\ pc = "query"
    /\ calls' = Append(calls, <<"QueryValueEx", "InstallPath">>)
    /\ \E outcome \in RegOutcomes :
         CASE outcome = "ok" ->
                /\ \E v \in RegValues : ipath' = v
                /\ pc' = "finally" /\ pending' = pending
           [] outcome = "PermissionError" ->
                ipath' = ipath /\ pc' = "except" /\ pending' = pending
           [] OTHER ->
                ipath' = ipath /\ pc' = "finally" /\ pending' = outcome
    /\ UNCHANGED <<exc, arch, regpath, regkey, installpath, cwd>>
    /\ UNCHANGED <<libvars, fixvars, vdfvars>>

\* lines 42-48: except PermissionError, the prompt
HandlePermissionError ==
    /\ pc = "except"
    /\ calls' = Append(calls, <<"input">>)
    /\ \E typed \in PromptInputs : ipath' = typed
    /\ pc' = "finally"
    /\ UNCHANGED <<exc, arch, regpath, regkey, pending, installpath, cwd>>
    /\ UNCHANGED <<libvars, fixvars, vdfvars>>

\* lines 50-57: the finally clause up to CloseKey; line 55 reads ipath
FinallyClose ==
    /\ pc = "finally"
    /\ IF regkey = None
       THEN pc' = "finally59" /\ UNCHANGED <<exc, calls>>
       ELSE IF ipath = Unbound
            THEN pc' = "raised" /\ exc' = "UnboundLocalError" /\ calls' = calls
            ELSE /\ calls' = Append(calls, <<"CloseKey">>)
                 /\ pc' = "finally59" /\ exc' = exc
    /\ UNCHANGED <<arch, regpath, regkey, ipath, pending, installpath, cwd>>
    /\ UNCHANGED <<libvars, fixvars, vdfvars>>

\* lines 59-60: the return inside finally discards a pending exception
FinallyReturn ==
    /\ pc = "finally59"
    /\ IF ipath = Unbound
       THEN pc' = "raised" /\ exc' = "UnboundLocalError"
            /\ installpath' = installpath
       ELSE pc' = "returned" /\ exc' = exc
            /\ installpath' = abspath(Strip(ipath, Whitespace))
    /\ pending' = "none"
    /\ UNCHANGED <<arch, regpath, regkey, ipath, calls, cwd>>
    /\ UNCHANGED <<libvars, fixvars, vdfvars>>

NextReg ==
    \/ SelectKey
    \/ OpenKey
    \/ QueryValue
    \/ HandlePermissionError
    \/ FinallyClose
    \/ FinallyReturn

SpecReg == InitReg /\ [][NextReg]_vars

RegDone == pc \in {"returned", "raised"}
Closed == \E i \in 1..Len(calls) : calls[i] = <<"CloseKey">>
Opened(path) == \E i \in 1..Len(calls) : calls[i] = <<"OpenKeyEx", path>>

\* C3: when winreg_read is left, by return or by exception, a key it opened
\* has been closed
C3_HandleClosedOnEveryExit == RegDone /\ regkey # None => Closed

\* C4: '64bit' opens SOFTWARE\Wow6432Node\Valve\Steam and '32bit' opens
\* SOFTWARE\Valve\Steam, and no other key; any other architecture ends in
\* ValueError with no registry call and no prompt made
C4_KeyPerArchitecture ==
    /\ arch = "64bit" /\ pc \notin {"start", "try"}
         => calls[1] = <<"OpenKeyEx", KeyWow64>> /\ ~Opened(Key32)
    /\ arch = "32bit" /\ pc \notin {"start", "try"}
         => calls[1] = <<"OpenKeyEx", Key32>> /\ ~Opened(KeyWow64)
    /\ arch \notin {"64bit", "32bit"} /\ pc # "start"
         => pc = "raised" /\ exc = "ValueError" /\ calls = <<>>

C4_Witness ==
    /\ pc = "returned" /\ arch = "64bit" /\ Opened(KeyWow64) /\ Closed

(***************************************************************************)
(* get_libraries                                                           *)
(***************************************************************************)
MaxLibLines == 2

wGames == <<"G", "a", "m", "e", "s">>
IndexDigits == {"1", "2", "3", "4", "5", "6", "7", "8"}

\* lines libraryfolders.vdf can hold
LibLines ==
    { <<tab, quote, "1", quote, tab, tab, quote>> \o wDriveC \o <<sep, sep>>
          \o wGames \o <<quote, "\n">>,
      <<tab, quote, "2", quote, tab, quote, "D", ":", altsep, "G", altsep,
        dot, quote>>,
      <<tab, quote, "9", quote, tab, quote, "E", ":", sep, sep, "x", quote>>,
      <<quote, "1", quote, tab, quote>> \o wDriveC \o <<sep, sep>> \o wGames
          \o <<quote>>,
      <<tab, quote, "3", quote, tab, quote, quote, "\n">>,
      <<tab, quote, "4", quote, space, "x", quote>>,
      <<tab, quote, "5", quote, tab, quote, "a", quote, space, quote, "b",
        sep, dot, dot, sep, "c", quote, "z">>,
      <<tab, quote, "6", quote, tab, quote, "a", sep, dot, dot, sep, "b",
        quote>>,
      <<"{", "\n">> }

\* how open(libfile) can end
LibStates == {"ok", "missing", "denied"}

\* positions of the quote characters a match can use: "." stops at a newline
QuotesAfterIndex(line) ==
    {i \in 5..Len(line) : line[i] = quote
                            /\ \A j \in 5..i : line[j] # "\n"}

\* libregex.search(line), line 72 and line 80: (^\t"[1-8]").*(".*")
LibMatch(line) ==
    /\ Len(line) >= 4
    /\ line[1] = tab /\ line[2] = quote /\ line[3] \in IndexDigits
    /\ line[4] = quote
    /\ Cardinality(QuotesAfterIndex(line)) >= 2

\* dir.group(2): the first .* is greedy, so the group starts at the last quote
\* that still has a quote after it and runs to the last quote
Group2(line) ==
    LET qs == QuotesAfterIndex(line)
        last == CHOOSE i \in qs : \A j \in qs : j <= i
        first == CHOOSE i \in qs \ {last} : \A j \in qs \ {last} : j <= i
    IN  SubSeq(line, first, last)

\* faulty variant: the normalized token is appended with its quotes
LibAppendQuoted(list, line) ==
    IF LibMatch(line) THEN Append(list, normpath(Group2(line))) ELSE list

\* lines 80-85: the body of the loop over the lines
LibAppend(list, line) ==
    IF LibMatch(line)
    THEN Append(list, Strip(normpath(Group2(line)), {quote}))
    ELSE list

\* number of %s in a format string given as its pieces
Specifiers(fmt) == Cardinality({i \in 1..Len(fmt) : fmt[i] = "%s"})

\* fmt % args raises TypeError unless the arguments match the specifiers
PercentFormatOk(fmt, nargs) == Specifiers(fmt) = nargs

InitLib ==
    /\ pc = "start"
    /\ exc = "none"
    /\ cwd = wDriveC \o <<sep, "w">>
    /\ libstate \in LibStates
    /\ fileLines = <<>> /\ libdirs = <<>>
    /\ arch = "" /\ regpath = None /\ regkey = None /\ ipath = Unbound
    /\ pending = "none" /\ calls = <<>> /\ installpath = <<>>
    /\ dir = <<>> /\ once = <<>> /\ twice = <<>>
    /\ regularFiles = {} /\ gameorder = <<>> /\ gamedirs = <<>>
    /\ entryvals = <<>> /\ listed = <<>> /\ gi = 0 /\ cleangamedirs = <<>>
    /\ opened = <<>> /\ lineno = 0 /\ lastline = <<>> /\ handled = <<>>
    /\ vdfcleanable = <<>>

\* lines 74-78: libdirs = [] and open(libfile)
OpenLibFile ==
    /\ pc = "start"
    /\ libdirs' = <<>>
    /\ pc' = CASE libstate = "ok" -> "reading"
               [] libstate = "missing" -> "FileNotFoundError"
               [] OTHER -> "PermissionError"
    /\ UNCHANGED <<exc, cwd, libstate, fileLines>>
    /\ UNCHANGED <<regvars, fixvars, vdfvars>>

\* lines 79-85: one iteration of the loop, on the next line of the file
ReadLibLine ==
    /\ pc = "reading"
    /\ Len(fileLines) < MaxLibLines
    /\ \E line \in LibLines :
         /\ fileLines' = Append(fileLines, line)
         /\ libdirs' = LibAppend(libdirs, line)
    /\ UNCHANGED <<pc, exc, cwd, libstate>>
    /\ UNCHANGED <<regvars, fixvars, vdfvars>>

\* line 89: end of file, return libdirs
ReturnLibdirs ==
    /\ pc = "reading"
    /\ pc' = "returned"
    /\ UNCHANGED <<exc, cwd, libvars>>
    /\ UNCHANGED <<regvars, fixvars, vdfvars>>

\* lines 90-92: the logging call swallows its own formatting error; the
\* print formats one %s with the tuple (libfile, steamdir)
HandleFileNotFound ==
    /\ pc = "FileNotFoundError"
    /\ IF PercentFormatOk(<<"Unable to find file ", "%s">>, 2)
       THEN pc' = "returnedNone" /\ exc' = exc
       ELSE pc' = "raised" /\ exc' = "TypeError"
    /\ UNCHANGED <<cwd, libvars>>
    /\ UNCHANGED <<regvars, fixvars, vdfvars>>

\* lines 93-95: the print formats one %s with the string libfile
HandlePermissionDenied ==
    /\ pc = "PermissionError"
    /\ IF PercentFormatOk(<<"Permission denied to ", "%s">>, 1)
       THEN pc' = "returnedNone" /\ exc' = exc
       ELSE pc' = "raised" /\ exc' = "TypeError"
    /\ UNCHANGED <<cwd, libvars>>
    /\ UNCHANGED <<regvars, fixvars, vdfvars>>

NextLib ==
    \/ OpenLibFile
    \/ ReadLibLine
    \/ ReturnLibdirs
    \/ HandleFileNotFound
    \/ HandlePermissionDenied

SpecLib == InitLib /\ [][NextLib]_vars

LibDone == pc \in {"returned", "returnedNone", "raised"}

\* C2: with libraryfolders.vdf missing, get_libraries comes back to its
\* caller without an exception and with no library path
C2_MissingFileNoException ==
    libstate = "missing" /\ LibDone
        => pc \in {"returned", "returnedNone"} /\ exc = "none" /\ libdirs = <<>>

\* the pattern as the claim words it: a tab, a quoted index 1..8, and later on
\* the same line a quoted token
MatchesPattern(line) ==
    /\ Len(line) >= 4
    /\ <<line[1], line[2], line[4]>> = <<tab, quote, quote>>
    /\ line[3] \in IndexDigits
    /\ \E i, j \in 5..Len(line) :
         /\ i < j /\ line[i] = quote /\ line[j] = quote
         /\ \A k \in 5..j : line[k] # "\n"

MatchingLines == SelectSeq(fileLines, MatchesPattern)

NoOuterQuote(s) == s = <<>> \/ (s[1] # quote /\ s[Len(s)] # quote)

\* C6: the result has one path per matching line of the file, in file order,
\* each the line's quoted token normalized, without quote characters around
\* it; other lines contribute nothing
C6_OnePathPerMatchingLine ==
    pc \in {"reading", "returned"} =>
        /\ Len(libdirs) = Len(MatchingLines)
        /\ \A k \in 1..Len(libdirs) :
             /\ NoOuterQuote(libdirs[k])
             /\ libdirs[k] = Strip(normpath(Group2(MatchingLines[k])), {quote})

C6_Witness ==
    /\ pc = "returned"
    /\ Len(fileLines) = 2
    /\ Len(libdirs) = 1
    /\ ~MatchesPattern(fileLines[1])
    /\ libdirs[1] = wDriveC \o <<sep>> \o wGames

(***************************************************************************)
(* fix_game_path                                                           *)
(***************************************************************************)
MaxComps == 2

\* path components the argument is built from
FixComps == {wSteamApps, wSteamApps \o <<"2">>, <<"L">>, pardir, curdir}

\* the sequences of at most n components
CompSeqs(n) == UNION {[1..k -> FixComps] : k \in 0..n}

\* the arguments: relative and absolute paths of at most MaxComps components
FixInputs ==
    {Join(cs, sep) : cs \in CompSeqs(MaxComps)}
        \cup {wDriveC \o <<sep>> \o Join(cs, sep) : cs \in CompSeqs(MaxComps)}

\* faulty variant: the suffix is appended whatever the path contains
fix_game_path_no_marker_test(d) ==
    abspath(join(join(d, wSteamApps), wCommon))

\* lines 98-104
fix_game_path(d) ==
    abspath(IF ~Contains(d, wSteamApps)
            THEN join(join(d, wSteamApps), wCommon)
            ELSE d)

InitFix ==
    /\ pc = "start"
    /\ exc = "none"
    /\ cwd \in WorkingDirs
    /\ dir \in FixInputs
    /\ once = <<>> /\ twice = <<>>
    /\ arch = "" /\ regpath = None /\ regkey = None /\ ipath = Unbound
    /\ pending = "none" /\ calls = <<>> /\ installpath = <<>>
    /\ libstate = "ok" /\ fileLines = <<>> /\ libdirs = <<>>
    /\ regularFiles = {} /\ gameorder = <<>> /\ gamedirs = <<>>
    /\ entryvals = <<>> /\ listed = <<>> /\ gi = 0 /\ cleangamedirs = <<>>
    /\ opened = <<>> /\ lineno = 0 /\ lastline = <<>> /\ handled = <<>>
    /\ vdfcleanable = <<>>

\* fix_game_path(dir)
FixOnce ==
    /\ pc = "start"
    /\ once' = fix_game_path(dir)
    /\ pc' = "once"
    /\ UNCHANGED <<exc, cwd, dir, twice>>
    /\ UNCHANGED <<regvars, libvars, vdfvars>>

\* fix_game_path applied to its own result
FixTwice ==
    /\ pc = "once"
    /\ twice' = fix_game_path(once)
    /\ pc' = "twice"
    /\ UNCHANGED <<exc, cwd, dir, once>>
    /\ UNCHANGED <<regvars, libvars, vdfvars>>

NextFix ==
    \/ FixOnce
    \/ FixTwice

SpecFix == InitFix /\ [][NextFix]_vars

wSuffix == <<sep>> \o wSteamApps \o <<sep>> \o wCommon
EndsWith(s, suf) ==
    Len(s) >= Len(suf) /\ SubSeq(s, Len(s) - Len(suf) + 1, Len(s)) = suf
HasMarker(s) == Contains(s, wSteamApps)

\* C7 as stated: for every path p, fix_game_path(fix_game_path(p)) equals
\* fix_game_path(p)
C7_IdempotentOnEveryPath == pc = "twice" => twice = once

\* C7 amended: the second application changes nothing when the first result
\* still contains the marker; over the two applications the suffix is
\* appended at most once; a path containing the marker gets no suffix
C7_IdempotentWhenMarkerSurvives ==
    /\ pc = "twice" /\ HasMarker(once) => twice = once
    /\ pc \in {"once", "twice"} /\ ~HasMarker(dir)
         => HasMarker(once) /\ EndsWith(once, wSuffix)
    /\ pc \in {"once", "twice"} /\ HasMarker(dir) => once = abspath(dir)
    /\ pc = "twice" /\ ~HasMarker(once)
         => HasMarker(dir) /\ EndsWith(twice, wSuffix) /\ twice # once

C7_Witness ==
    /\ pc = "twice"
    /\ dir = <<"L">>
    /\ once = cwd \o <<sep, "L">> \o wSuffix
    /\ twice = once

(***************************************************************************)
(* check_vdf                                                               *)
(***************************************************************************)
MaxLines == 2

gameA == wDriveC \o <<sep, "G">>
gameB == <<"D", ":", sep, "G">>

\* the key sequences of the caller's dict
GameOrders == {<<gameB>>, <<gameA, gameB>>, <<gameB, gameA>>}

wStale == <<"o", "l", "d", ".", "t", "x", "t">>
\* values the caller's dict can hold on entry; the caller passes ''
EntryValues == {<<>>, wStale}

nameA == <<"a">> \o wVdf
nameB == <<"b">> \o wVdf \o <<"~">>
nameX == <<"x", ".", "t", "x", "t">>

\* what os.listdir can return for a content directory
Listings ==
    { <<>>, <<nameX>>, <<nameA>>, <<nameA, nameB>>, <<nameB, nameA>>,
      <<nameX, nameB>>, <<nameB, nameX, nameA>> }

pathSetupA == <<"c", ":", sep, "g", sep>> \o wSetup \o wExe
pathVcA == <<"c", ":", sep, "g", sep, "v", "c">> \o wExe
pathRedistB == <<"d", ":", sep, "g", sep>> \o wRedist \o wExe

\* the regular files a disk can hold
FileSystems == {{pathSetupA, pathVcA, pathRedistB}, {pathVcA}}

\* a byte the codec cannot decode
BadByte == "<0xff>"

wToken == <<percent>> \o wINSTALLDIR \o <<percent>>

\* lines a per-title manifest can hold
VdfLines ==
    { <<quote>> \o wToken \o <<sep>> \o wSetup \o wExe \o <<quote, "\n">>,
      wToken \o <<altsep, "v", "c">> \o wExe \o <<space, "q">>,
      wToken \o <<sep>> \o wRedist \o wExe,
      wINSTALLDIR,
      <<percent>> \o wINSTALLDIR \o <<sep>> \o wSetup \o wExe,
      wINSTALLDIR \o <<percent>> \o gameA \o <<sep, percent>> \o wSetup \o wExe,
      <<percent>> \o wInstalldirLower \o <<percent, sep>> \o wSetup \o wExe,
      <<"a", "p", "p", "i", "d", "\n">>,
      <<"x", BadByte>> }

\* module-level names bound in libsteam.py (lines 5-12, 15, 63, 98, 107)
ModuleGlobals == {"pa", "logging", "os", "re", "winreg", "liblogger",
                  "winreg_read", "get_libraries", "fix_game_path",
                  "check_vdf"}

Decodable(line) == \A i \in 1..Len(line) : line[i] # BadByte

\* line 116
IsVdfName(file) == Contains(file, wVdf)

RECURSIVE RecordVdfFirst(_, _, _)
\* faulty variant: the loop stops at the first match
RecordVdfFirst(game, files, value) ==
    IF files = <<>> THEN value
    ELSE IF IsVdfName(Head(files)) THEN abspath(join(game, Head(files)))
    ELSE RecordVdfFirst(game, Tail(files), value)

RECURSIVE RecordVdf(_, _, _)
\* lines 115-117: the loop over the listing, which has no break
RecordVdf(game, files, value) ==
    IF files = <<>> THEN value
    ELSE RecordVdf(game, Tail(files),
                   IF IsVdfName(Head(files))
                   THEN abspath(join(game, Head(files)))
                   ELSE value)

RECURSIVE ScrubKeepAll(_, _)
\* faulty variant: the scrub pass copies every entry
ScrubKeepAll(order, dirs) ==
    IF order = <<>> THEN <<>>
    ELSE <<<<Head(order), dirs[Head(order)]>>>> \o ScrubKeepAll(Tail(order), dirs)

RECURSIVE Scrub(_, _)
\* lines 120-123
Scrub(order, dirs) ==
    IF order = <<>> THEN <<>>
    ELSE (IF dirs[Head(order)] # <<>>
          THEN <<<<Head(order), dirs[Head(order)]>>>>
          ELSE <<>>) \o Scrub(Tail(order), dirs)

\* faulty variant: every line is split
HasInstallDirAlways(line) == TRUE

\* line 131
HasInstallDir(line) == Contains(line, wINSTALLDIR)

\* lines 133-138: the path a line resolves to; needs three segments
ResolvedPath(game, line) ==
    LET splitline == Split(line, percent)
        newline == Replace(splitline[2], wINSTALLDIR, game)
                     \o Slice(splitline[3], Find(splitline[3], dot) + 4)
    IN  Lower(abspath(newline))

\* os.path.isfile(fpath) and os.path.exists(fpath)
IsFile(fpath) == fpath \in regularFiles

\* faulty variant: the file test is left out
IsCleanableNoFileTest(fpath) ==
    \E rc \in {wSetup, wRedist} : Contains(fpath, rc)

\* lines 139-144
IsCleanable(fpath) ==
    /\ IsFile(fpath)
    /\ \E rc \in {wSetup, wRedist} : Contains(fpath, rc)

\* lines 129-146 on one line of the manifest of game: the exception the
\* line raises, or "none"
LineError(line) ==
    IF ~Decodable(line) THEN "UnicodeDecodeError"
    ELSE IF HasInstallDir(line) /\ Len(Split(line, percent)) < 3
         THEN "IndexError"
         ELSE "none"

\* lines 129-146: the result dict after one line that raises nothing
AfterLine(cleanable, game, line) ==
    IF HasInstallDir(line) /\ IsCleanable(ResolvedPath(game, line))
    THEN cleanable \cup {ResolvedPath(game, line)}
    ELSE cleanable

KeysOf(order) == {order[i] : i \in 1..Len(order)}

\* line 110, and the argument
InitVdf ==
    /\ pc = "listing"
    /\ exc = "none"
    /\ cwd = wDriveC \o <<sep, "w">>
    /\ regularFiles \in FileSystems
    /\ gameorder \in GameOrders
    /\ entryvals \in [KeysOf(gameorder) -> EntryValues]
    /\ gamedirs = entryvals
    /\ listed = <<>> /\ gi = 1 /\ cleangamedirs = <<>>
    /\ opened = <<>> /\ lineno = 0 /\ lastline = <<>> /\ handled = <<>>
    /\ vdfcleanable = {}
    /\ arch = "" /\ regpath = None /\ regkey = None /\ ipath = Unbound
    /\ pending = "none" /\ calls = <<>> /\ installpath = <<>>
    /\ libstate = "ok" /\ fileLines = <<>> /\ libdirs = <<>>
    /\ dir = <<>> /\ once = <<>> /\ twice = <<>>

\* lines 113-117: one iteration of the first loop, on the next game
ListDir ==
    /\ pc = "listing"
    /\ gi <= Len(gameorder)
    /\ \E files \in Listings :
         /\ listed' = listed @@ (gameorder[gi] :> files)
         /\ gamedirs' = [gamedirs EXCEPT ![gameorder[gi]] =
                            RecordVdf(gameorder[gi], files, @)]
    /\ gi' = gi + 1
    /\ UNCHANGED <<pc, exc, cwd, regularFiles, gameorder, entryvals,
                   cleangamedirs, opened, lineno, lastline, handled,
                   vdfcleanable>>
    /\ UNCHANGED <<regvars, libvars, fixvars>>

\* lines 120-123: the scrub pass
ScrubPass ==
    /\ pc = "listing"
    /\ gi > Len(gameorder)
    /\ cleangamedirs' = Scrub(gameorder, gamedirs)
    /\ pc' = "open"
    /\ gi' = 1
    /\ UNCHANGED <<exc, cwd, regularFiles, gameorder, gamedirs, entryvals,
                   listed, opened, lineno, lastline, handled, vdfcleanable>>
    /\ UNCHANGED <<regvars, libvars, fixvars>>

\* the recorded value is a file the listing named, so it exists
ListedManifest(game, path) ==
    \E i \in 1..Len(listed[game]) :
        IsVdfName(listed[game][i]) /\ path = abspath(join(game, listed[game][i]))

\* lines 126-127: open the manifest of the next retained game
OpenManifest ==
    /\ pc = "open"
    /\ gi <= Len(cleangamedirs)
    /\ opened' = Append(opened, cleangamedirs[gi][2])
    /\ lineno' = 0
    /\ lastline' = <<>>
    /\ \E found \in (IF ListedManifest(cleangamedirs[gi][1], cleangamedirs[gi][2])
                     THEN {TRUE} ELSE BOOLEAN) :
         IF found
         THEN pc' = "reading" /\ exc' = exc
         ELSE pc' = "raised" /\ exc' = "FileNotFoundError"
    /\ UNCHANGED <<cwd, regularFiles, gameorder, gamedirs, entryvals, listed,
                   gi, cleangamedirs, handled, vdfcleanable>>
    /\ UNCHANGED <<regvars, libvars, fixvars>>

\* lines 129-146: one iteration of the loop over the lines
ReadLine ==
    /\ pc = "reading"
    /\ lineno < MaxLines
    /\ \E line \in VdfLines :
         /\ lastline' = line
         /\ IF LineError(line) = "none"
            THEN /\ vdfcleanable' = AfterLine(vdfcleanable, cleangamedirs[gi][1], line)
                 /\ UNCHANGED <<pc, handled>>
            ELSE /\ pc' = "except"
                 /\ handled' = Append(handled, LineError(line))
                 /\ UNCHANGED vdfcleanable
    /\ lineno' = lineno + 1
    /\ UNCHANGED <<exc, cwd, regularFiles, gameorder, gamedirs, entryvals,
                   listed, gi, cleangamedirs, opened>>
    /\ UNCHANGED <<regvars, libvars, fixvars>>

\* end of the manifest: the with block closes it and the loop goes on
CloseManifest ==
    /\ pc = "reading"
    /\ pc' = "open"
    /\ gi' = gi + 1
    /\ UNCHANGED <<exc, cwd, regularFiles, gameorder, gamedirs, entryvals,
                   listed, cleangamedirs, opened, lineno, lastline, handled,
                   vdfcleanable>>
    /\ UNCHANGED <<regvars, libvars, fixvars>>

\* lines 147-151: both except clauses call sclogger.error, and sclogger is
\* looked up in the module's globals
HandleScanError ==
    /\ pc = "except"
    /\ IF "sclogger" \in ModuleGlobals
       THEN pc' = "open" /\ gi' = gi + 1 /\ exc' = exc
       ELSE pc' = "raised" /\ exc' = "NameError" /\ gi' = gi
    /\ UNCHANGED <<cwd, regularFiles, gameorder, gamedirs, entryvals, listed,
                   cleangamedirs, opened, lineno, lastline, handled,
                   vdfcleanable>>
    /\ UNCHANGED <<regvars, libvars, fixvars>>

\* line 153
ReturnCleanable ==
    /\ pc = "open"
    /\ gi > Len(cleangamedirs)
    /\ pc' = "returned"
    /\ UNCHANGED <<exc, cwd, vdfvars>>
    /\ UNCHANGED <<regvars, libvars, fixvars>>

NextVdf ==
    \/ ListDir
    \/ ScrubPass
    \/ OpenManifest
    \/ ReadLine
    \/ CloseManifest
    \/ HandleScanError
    \/ ReturnCleanable

SpecVdf == InitVdf /\ [][NextVdf]_vars

\* C1: once a manifest has raised UnicodeDecodeError or IndexError, the scan
\* goes on with the other manifests and returns; no exception reaches the
\* caller
C1_ScanSurvivesBadManifest ==
    handled # <<>> /\ pc # "except"
        => pc \in {"open", "reading", "returned"} /\ exc = "none"

\* C5: every key of the result is an existing regular file whose lower-cased
\* path contains 'setup' or 'redist'
C5_KeysAreExistingInstallers ==
    \A fpath \in vdfcleanable :
        /\ fpath \in regularFiles
        /\ fpath = Lower(fpath)
        /\ Contains(fpath, wSetup) \/ Contains(fpath, wRedist)

\* the setup line read from the second manifest resolves to a path that is
\* no file, after the first manifest gave a candidate
C5_Witness ==
    /\ pc = "reading" /\ gi = 2
    /\ StartsWith(lastline, <<quote>> \o wToken)
    /\ Lower(gameB) \o <<sep>> \o wSetup \o wExe \notin regularFiles
    /\ vdfcleanable = {pathSetupA}

\* a step that read a line the codec could decode
ReadStep == lineno' = lineno + 1 /\ Decodable(lastline')
Skipped == vdfcleanable' = vdfcleanable /\ pc' = "reading" /\ handled' = handled

\* C8 as stated: a line without the token %INSTALLDIR% is skipped: no
\* candidate is recorded and no except clause is entered
C8_LineWithoutTokenSkipped ==
    [][ReadStep /\ ~Contains(lastline', wToken) => Skipped]_vars

\* C8 amended: a line without the substring INSTALLDIR is skipped; a line
\* with it is split on '%' whether or not the '%' surround it: with fewer
\* than three segments it enters the IndexError clause, otherwise the path it
\* resolves to is recorded when it is a cleanable file
C8_LineWithoutInstallDirSkipped ==
    [][ReadStep =>
         IF ~Contains(lastline', wINSTALLDIR) THEN Skipped
         ELSE IF Len(Split(lastline', percent)) < 3
              THEN pc' = "except" /\ handled' = Append(handled, "IndexError")
              ELSE /\ pc' = "reading"
                   /\ vdfcleanable' \ vdfcleanable
                        \subseteq {ResolvedPath(cleangamedirs[gi][1], lastline')}
                   /\ vdfcleanable \subseteq vdfcleanable']_vars

\* the line with the token in lower case is skipped after a candidate was
\* recorded
C8_Witness ==
    /\ pc = "reading" /\ lineno = 2
    /\ Contains(lastline, wInstalldirLower)
    /\ vdfcleanable # {}

HasVdf(files) == \E i \in 1..Len(files) : Contains(files[i], wVdf)
FirstVdfName(files) ==
    files[CHOOSE i \in 1..Len(files) :
            /\ Contains(files[i], wVdf)
            /\ \A j \in 1..(i - 1) : ~Contains(files[j], wVdf)]
LastVdfName(files) ==
    files[CHOOSE i \in 1..Len(files) :
            /\ Contains(files[i], wVdf)
            /\ \A j \in (i + 1)..Len(files) : ~Contains(files[j], wVdf)]

\* each open() is for one retained directory, on the value recorded for it
OneOpenPerRetainedDir ==
    /\ Len(opened) <= Len(cleangamedirs)
    /\ \A i \in 1..Len(opened) :
         opened[i] = gamedirs[cleangamedirs[i][1]]
    /\ \A i, j \in 1..Len(cleangamedirs) :
         i # j => cleangamedirs[i][1] # cleangamedirs[j][1]

\* C9 as stated: the manifest recorded for a directory is the first entry of
\* its listing whose name contains '.vdf'
C9_FirstVdfSelected ==
    \A game \in DOMAIN listed :
        HasVdf(listed[game])
            => gamedirs[game] = abspath(join(game, FirstVdfName(listed[game])))

\* C9 amended: the manifest recorded for a directory, and later read, is the
\* last entry of its listing whose name contains '.vdf'; at most one file is
\* read per directory
C9_LastVdfSelected ==
    /\ \A game \in DOMAIN listed :
         HasVdf(listed[game])
            => gamedirs[game] = abspath(join(game, LastVdfName(listed[game])))
    /\ OneOpenPerRetainedDir

C9_Witness ==
    /\ pc = "reading"
    /\ gameorder = <<gameB>>
    /\ listed[gameB] = <<nameA, nameB>>
    /\ opened = << gameB \o <<sep>> \o nameB >>

Retained == {cleangamedirs[i][1] : i \in 1..Len(cleangamedirs)}
ScrubDone == pc \notin {"listing"}

====
